---- MODULE Spec2Model ----
(***************************************************************************)
(* FLAC metadata rewriting (package tag): the block layout scan, the       *)
(* comment rewriter and the two file shift primitives, over a byte-exact   *)
(* model of a seekable read/write file.                                    *)
(*                                                                         *)
(* File offsets are 0-based as in the source; a file is a sequence of      *)
(* bytes 0..255, so the byte at offset p is file[p + 1].                   *)
(***************************************************************************)
EXTENDS Integers, Sequences, FiniteSets, TLC

VARIABLES file, pos, written, techMeta, calls, scenario, fault, run

vars == <<file, pos, written, techMeta, calls, scenario, fault, run>>

----------------------------------------------------------------------------
(* Program constants *)

paddingBlock == 1
vorbisCommentBlock == 4
pictureBlock == 6

\* ShiftFileRight: bufSize := 100
bufSize == 100

\* the byte ShiftFileRight fills the gap with: []byte("_")[0]
fillerByte == 95

\* "fLaC"
Signature == <<102, 76, 97, 67>>

----------------------------------------------------------------------------
(* Bounds of the model *)

\* longest block chain of a generated container
MaxBlocks == 4
\* longest new comment payload
MaxPayload == 6
\* tails 0..SmallTail of the plain files the shift primitives are run on
SmallTail == 9
\* Length of the buffer of ShiftFileLeft.  The source allocates 1024*1024
\* bytes (buf := make([]byte, 1024*1024)); its loop is parametric in that
\* length, and the model runs it with a length the bounded files exceed, so
\* that single-chunk, exact-multiple and partial-chunk tails all occur.
ShiftLeftBufLen == 4
\* the calls on the stream of which one may fail: the first MaxFaultAt
MaxFaultAt == 16
\* longest block chain of a container that is damaged or run with a fault
MaxFaultBlocks == 2
\* most bytes a damaged container has lost at its end
MaxCut == 8

----------------------------------------------------------------------------
(* The stream: an os.File opened O_RDWR, used through io.ReadWriteSeeker.   *)
(* A stream value is [file, pos, written, k, fault, short, err, failed,     *)
(* late]: written collects the offsets that some Write has stored a byte   *)
(* to, k counts the Seek, Read and Write calls made so far and err is the  *)
(* error of the latest of them.  The call number fault (none when 0) fails *)
(* with an I/O error: a failing Seek or Read does nothing, a failing Write *)
(* stores nothing or, when short is set, all but the last byte.  failed    *)
(* names the call that failed and late tells that Write was called after   *)
(* it.  A query of the position, Seek(0, io.SeekCurrent), moves nothing    *)
(* and is taken to succeed, as is a Write of no bytes.                     *)

Min(a, b) == IF a < b THEN a ELSE b
Max(a, b) == IF a > b THEN a ELSE b

\* F applied to the value of e, e being evaluated once
With(e, F(_)) == CHOOSE r \in {F(x) : x \in {e}} : TRUE

\* bytes a read of n bytes at offset p obtains (fewer at end of file)
ReadAt(f, p, n) == SubSeq(f, p + 1, Min(Len(f), p + n))

\* file content after writing b at offset p; a write past the end extends the
\* file and the hole reads as zero; a write of no bytes changes nothing
WriteAt(f, p, b) ==
    IF Len(b) = 0 THEN f
    ELSE [i \in 1..Max(Len(f), p + Len(b)) |->
            IF i > p /\ i <= p + Len(b) THEN b[i - p]
            ELSE IF i <= Len(f) THEN f[i] ELSE 0]

\* rw.Seek to an absolute target (callers compute it from the whence); the
\* call fails when it is the call number fault or the target is negative,
\* and then leaves the cursor where it was
Seek(rw, target) ==
    IF rw.k + 1 = rw.fault
    THEN [rw EXCEPT !.k = @ + 1, !.err = "EIO", !.failed = "seek"]
    ELSE IF target < 0 THEN [rw EXCEPT !.k = @ + 1, !.err = "EINVAL"]
    ELSE [rw EXCEPT !.k = @ + 1, !.err = "nil", !.pos = target]

\* the position that call of rw.Seek returns: the new offset, 0 together
\* with an error
SeekRet(rw, target) == IF rw.k + 1 = rw.fault \/ target < 0 THEN 0 ELSE target

\* rw.Read(p) with len(p) = n: the bytes obtained and the advanced stream;
\* nothing obtained for a non-empty p is io.EOF
Read(rw, n) ==
    IF rw.k + 1 = rw.fault
    THEN [rw   |-> [rw EXCEPT !.k = @ + 1, !.err = "EIO", !.failed = "read"],
          data |-> <<>>]
    ELSE [rw   |-> [rw EXCEPT !.k = @ + 1,
                              !.pos = rw.pos + Len(ReadAt(rw.file, rw.pos, n)),
                              !.err = IF rw.pos >= Len(rw.file) /\ n > 0
                                      THEN "EOF" ELSE "nil"],
          data |-> ReadAt(rw.file, rw.pos, n)]

\* storing the bytes b at the cursor
Store(rw, b) ==
    [rw EXCEPT !.file = WriteAt(rw.file, rw.pos, b),
               !.pos = rw.pos + Len(b),
               !.written = rw.written \cup {rw.pos + i - 1 : i \in 1..Len(b)},
               !.late = rw.late \/ rw.failed # "none"]

\* rw.Write(b); the failing call stores nothing or, as a short write, all
\* but the last byte
Write(rw, b) ==
    IF rw.k + 1 # rw.fault \/ Len(b) = 0
    THEN Store([rw EXCEPT !.k = @ + 1, !.err = "nil"], b)
    ELSE IF rw.short
    THEN [Store([rw EXCEPT !.k = @ + 1, !.err = "ErrShortWrite"],
                SubSeq(b, 1, Len(b) - 1)) EXCEPT !.failed = "write"]
    ELSE [rw EXCEPT !.k = @ + 1, !.err = "EIO", !.failed = "write"]

----------------------------------------------------------------------------
(* Helpers of the package *)

\* getBit(b, 7)
getBit7(b) == (b \div 128) % 2 = 1

\* getInt: big-endian value of a byte sequence
RECURSIVE getInt(_)
getInt(b) == IF Len(b) = 0 THEN 0
             ELSE getInt(SubSeq(b, 1, Len(b) - 1)) * 256 + b[Len(b)]

\* readBytes(r, n): io.ReadFull; err is "nil", the error of the failed
\* read, "EOF" (nothing read) or "ErrUnexpectedEOF" (short read)
readBytes(rw, n) ==
    LET rd == Read(rw, n)
    IN  [rw   |-> rd.rw,
         data |-> rd.data,
         err  |-> IF rd.rw.err = "EIO" THEN "EIO"
                  ELSE IF Len(rd.data) = n THEN "nil"
                  ELSE IF Len(rd.data) = 0 THEN "EOF" ELSE "ErrUnexpectedEOF"]

\* formatUintBigEndian(n, 3): the three low-order bytes of n, big-endian
formatUintBigEndian3(n) ==
    <<(n \div 65536) % 256, (n \div 256) % 256, n % 256>>

----------------------------------------------------------------------------
(* ShiftFileLeft *)

\* ShiftFileLeftWrite with the seek before the write going back over the
\* bytes read only, not over the gap
ShiftFileLeftWrite_SeekBackShort(rd, offset) ==
    With(Seek(rd.rw, rd.rw.pos - Len(rd.data)), LAMBDA r2 :
        IF r2.err # "nil" THEN [rw |-> r2, state |-> "error", err |-> r2.err]
        ELSE With(Write(r2, rd.data), LAMBDA r3 :
            IF r3.err # "nil"
            THEN [rw |-> r3, state |-> "error", err |-> r3.err]
            ELSE [rw |-> r3, state |-> "loop", err |-> "nil"]))

\* the write of one iteration: n bytes were read, the cursor goes back
\* over them and the gap and they are written; yields [rw, state, err]
ShiftFileLeftWrite(rd, offset) ==
    With(Seek(rd.rw, rd.rw.pos - (Len(rd.data) + offset)), LAMBDA r2 :
        IF r2.err # "nil" THEN [rw |-> r2, state |-> "error", err |-> r2.err]
        ELSE With(Write(r2, rd.data), LAMBDA r3 :
            IF r3.err # "nil"
            THEN [rw |-> r3, state |-> "error", err |-> r3.err]
            ELSE [rw |-> r3, state |-> "loop", err |-> "nil"]))

\* One iteration of the for loop of ShiftFileLeft; yields [rw, state, err],
\* state being "loop" to iterate again, "done" after break and "error" when
\* the function returns err
ShiftFileLeftIter(rw, offset) ==
    With(Seek(rw, rw.pos + offset), LAMBDA r1 :
        IF r1.err # "nil" THEN [rw |-> r1, state |-> "error", err |-> r1.err]
        ELSE With(Read(r1, ShiftLeftBufLen), LAMBDA rd :
            IF rd.rw.err \notin {"nil", "EOF"}
            THEN [rw |-> rd.rw, state |-> "error", err |-> rd.rw.err]
            ELSE With(IF Len(rd.data) > 0 THEN ShiftFileLeftWrite(rd, offset)
                      ELSE [rw |-> rd.rw, state |-> "loop", err |-> "nil"],
                      LAMBDA w :
                IF w.state = "error" THEN w
                ELSE IF rd.rw.err = "EOF" THEN [w EXCEPT !.state = "done"]
                ELSE w)))

\* the for loop of ShiftFileLeft; yields [rw, state, err]
RECURSIVE ShiftFileLeftLoop(_, _)
ShiftFileLeftLoop(rw, offset) ==
    With(ShiftFileLeftIter(rw, offset), LAMBDA it :
        IF it.state # "loop" THEN it ELSE ShiftFileLeftLoop(it.rw, offset))

\* what ShiftFileLeft does after its loop, l being the loop's outcome
ShiftFileLeftEnd(l, originalPosition) ==
    IF l.state = "error" THEN [rw |-> l.rw, err |-> l.err]
    ELSE [rw |-> Seek(l.rw, originalPosition), err |-> "nil"]

\* ShiftFileLeft(rw, offset); yields [rw, err]
ShiftFileLeft(rw, offset) ==
    ShiftFileLeftEnd(ShiftFileLeftLoop(rw, offset), rw.pos)

----------------------------------------------------------------------------
(* ShiftFileRight *)

\* rw.Read(buf) into the first n bytes of buf
ReadInto(buf, d) ==
    [i \in 1..Len(buf) |-> IF i <= Len(d) THEN d[i] ELSE buf[i]]

\* The state of the loop is st = [rw, buf, len, stop, state]: buf is the
\* backing array (its length is cap(buf)), len is len(buf); state is "loop"
\* while iterating, "done" after break, "panic" after a slice bounds
\* violation.

\* the last iteration after its chunk was moved: the cursor r4 is back at
\* the gap, which is filled from buf[:offset]
ShiftFileRightFill(st, r4, buf1, offset) ==
    IF offset < 0 \/ offset > Len(st.buf)
    THEN \* buf = buf[:offset] beyond cap(buf)
         [st EXCEPT !.rw = r4, !.buf = buf1, !.state = "panic"]
    ELSE [st EXCEPT
            !.rw = Write(r4, [i \in 1..offset |-> fillerByte]),
            !.buf = [i \in 1..Len(buf1) |->
                       IF i <= offset THEN fillerByte ELSE buf1[i]],
            !.len = offset,
            !.state = "done"]

\* ShiftFileRightBack without the step back to the chunk before: the next
\* iteration reads the chunk just moved again
ShiftFileRightBack_NoStepBack(st, r4, buf1, rest) ==
    IF rest >= st.len
    THEN [st EXCEPT !.rw = r4, !.buf = buf1]
    ELSE IF rest < 0
    THEN \* buf = buf[:rest] with a negative bound
         [st EXCEPT !.rw = Seek(r4, r4.pos - rest), !.buf = buf1,
                    !.state = "panic"]
    ELSE [st EXCEPT !.rw = Seek(r4, r4.pos - rest), !.buf = buf1,
                    !.len = rest, !.stop = TRUE]

\* any other iteration after its chunk was moved: the cursor r4 is back at
\* the start of the chunk, rest bytes above the original position
ShiftFileRightBack(st, r4, buf1, rest) ==
    IF rest >= st.len
    THEN [st EXCEPT !.rw = Seek(r4, r4.pos - st.len), !.buf = buf1]
    ELSE IF rest < 0
    THEN \* buf = buf[:rest] with a negative bound
         [st EXCEPT !.rw = Seek(r4, r4.pos - rest), !.buf = buf1,
                    !.state = "panic"]
    ELSE [st EXCEPT !.rw = Seek(r4, r4.pos - rest), !.buf = buf1,
                    !.len = rest, !.stop = TRUE]

\* one iteration of the for loop
ShiftFileRightIter(st, offset, originalPosition) ==
    With(Read(st.rw, st.len), LAMBDA rd :
    With(ReadInto(st.buf, rd.data), LAMBDA buf1 :
    With(Write(Seek(rd.rw, rd.rw.pos - st.len + offset),
               SubSeq(buf1, 1, st.len)), LAMBDA r3 :
    With(Seek(r3, r3.pos - st.len - offset), LAMBDA r4 :
        IF st.stop THEN ShiftFileRightFill(st, r4, buf1, offset)
        ELSE ShiftFileRightBack(
                 st, r4, buf1,
                 SeekRet(r3, r3.pos - st.len - offset) - originalPosition)))))

RECURSIVE ShiftFileRightLoop(_, _, _)
ShiftFileRightLoop(st, offset, originalPosition) ==
    IF st.state # "loop" THEN st
    ELSE ShiftFileRightLoop(ShiftFileRightIter(st, offset, originalPosition),
                            offset, originalPosition)

\* the loop state ShiftFileRight enters its for loop with: the file size is
\* what the seek to the end returns
ShiftFileRightStart(rw) ==
    LET originalPosition == rw.pos
        fileSize == SeekRet(rw, Len(rw.file))
        r2 == Seek(Seek(rw, Len(rw.file)), originalPosition)
        tail == fileSize - originalPosition
        size == IF tail < bufSize THEN tail ELSE bufSize
    IN  IF size < 0
        THEN \* make([]byte, bufSize) with a negative length
             [rw |-> r2, buf |-> <<>>, len |-> 0, stop |-> TRUE,
              state |-> "panic"]
        ELSE [rw    |-> Seek(r2, Len(r2.file) - size),
              buf   |-> [i \in 1..size |-> 0],
              len   |-> size,
              stop  |-> tail < bufSize,
              state |-> "loop"]

\* ShiftFileRight(rw, offset); it has no result: err is "nil" when it
\* returns and "panic" when it does not
ShiftFileRight(rw, offset) ==
    LET originalPosition == rw.pos
        fin == ShiftFileRightLoop(ShiftFileRightStart(rw), offset,
                                  originalPosition)
    IN  IF fin.state = "panic" THEN [rw |-> fin.rw, err |-> "panic"]
        ELSE [rw |-> Seek(fin.rw, originalPosition), err |-> "nil"]

----------------------------------------------------------------------------
(* flacMetaHeadersLayout.findBlocks *)

\* flacMetaHeadersLayout{}: the zero value
ZeroLayout ==
    [commentBlockPos |-> 0, commentBlockLen |-> 0,
     paddingBlockPos |-> 0, paddingBlockLen |-> 0]

\* The state of the scan is w = [rw, m, bi, commentBlockIndex, state, err]:
\* bi is the blocks count, state is "loop" while iterating, "done" after a
\* break and "error" when the function returns err.

\* the state findBlocks enters its for loop with
findBlocksStart(rw, m) ==
    [rw |-> rw, m |-> m, bi |-> 0, commentBlockIndex |-> 0,
     state |-> "loop", err |-> "nil"]

\* the switch of one iteration and what follows it, r2 being the stream
\* after the header was read
findBlocksSwitch(w, r2, last, type, blockLen) ==
    LET m2  == IF type = vorbisCommentBlock
               THEN [w.m EXCEPT !.commentBlockLen = blockLen,
                                !.commentBlockPos = r2.pos - 4]
               ELSE w.m
        ci2 == IF type = vorbisCommentBlock THEN w.bi
               ELSE w.commentBlockIndex
    IN  IF type = paddingBlock /\ w.bi = ci2 + 1
        THEN \* break forLoop
             [w EXCEPT !.rw = r2,
                       !.m = [m2 EXCEPT !.paddingBlockLen = blockLen,
                                        !.paddingBlockPos = r2.pos - 4],
                       !.state = "done"]
        ELSE [w EXCEPT !.rw = Seek(r2, r2.pos + blockLen),
                       !.m = m2,
                       !.bi = w.bi + 1,
                       !.commentBlockIndex = ci2,
                       !.state = IF last THEN "done" ELSE "loop"]

\* one iteration of the for loop of findBlocks
findBlocksIter(w) ==
    With(readBytes(w.rw, 1), LAMBDA h :
        IF h.err # "nil"
        THEN [w EXCEPT !.rw = h.rw, !.state = "error", !.err = h.err]
        ELSE With(readBytes(h.rw, 3), LAMBDA l :
            IF l.err # "nil"
            THEN [w EXCEPT !.rw = l.rw, !.state = "error", !.err = l.err]
            ELSE findBlocksSwitch(w, l.rw, getBit7(h.data[1]),
                                  IF getBit7(h.data[1]) THEN h.data[1] - 128
                                  ELSE h.data[1],
                                  getInt(l.data))))

RECURSIVE findBlocksLoop(_)
findBlocksLoop(w) ==
    IF w.state # "loop" THEN w ELSE findBlocksLoop(findBlocksIter(w))

\* what findBlocks does after its loop; yields [rw, m, err]
findBlocksEnd(w, originalPos) ==
    IF w.state = "error" THEN [rw |-> w.rw, m |-> w.m, err |-> w.err]
    ELSE [rw |-> Seek(w.rw, originalPos), m |-> w.m, err |-> "nil"]

\* m.findBlocks(r); yields [rw, m, err]
findBlocks(rw, m) ==
    findBlocksEnd(findBlocksLoop(findBlocksStart(rw, m)), rw.pos)

----------------------------------------------------------------------------
(* flacMetaHeadersLayout.shiftPadding *)

\* m.shiftPadding(rw, newCommentBlockLen); yields the stream
shiftPadding(rw, m, newCommentBlockLen) ==
    LET offset == newCommentBlockLen - m.commentBlockLen
        newPadBlockLen == m.paddingBlockLen - offset
        newPadBlockPos == m.paddingBlockPos + offset
        rd == Read(Seek(rw, m.paddingBlockPos), 1)
        origPadBlockHeaderByte == ReadInto(<<0>>, rd.data)
        r2 == Write(Seek(rd.rw, newPadBlockPos), origPadBlockHeaderByte)
    IN  Write(r2, formatUintBigEndian3(newPadBlockLen))

----------------------------------------------------------------------------
(* findAndWriteFlacCommentBlock (flac.go) *)

\* the vorbisCommentBlock case, entered after the 4 header bytes were read;
\* ret is "continue" when the case falls out of the switch
CommentCase(rw, blockLen, preparedVorbisComment) ==
    LET newBlockLen == Len(preparedVorbisComment)
    IN  With(Write(Seek(rw, rw.pos - 3), formatUintBigEndian3(newBlockLen)),
        LAMBDA r1 :
        IF newBlockLen <= blockLen
        THEN With(Write(r1, preparedVorbisComment), LAMBDA r2 :
                 \* a write of fewer bytes comes with an error
                 IF r2.err # "nil" THEN [rw |-> r2, ret |-> r2.err]
                 ELSE IF blockLen - newBlockLen > 0
                 THEN With(ShiftFileLeft(r2, blockLen - newBlockLen),
                           LAMBDA s : [rw |-> s.rw, ret |-> s.err])
                 ELSE [rw |-> r2, ret |-> "continue"])
        ELSE With(ShiftFileRight(Seek(r1, r1.pos + blockLen),
                                 newBlockLen - blockLen), LAMBDA s :
                 IF s.err = "panic" THEN [rw |-> s.rw, ret |-> "panic"]
                 ELSE With(Write(Seek(s.rw, r1.pos), preparedVorbisComment),
                           LAMBDA r2 : [rw |-> r2, ret |-> r2.err])))

\* findAndWriteFlacCommentBlock(rw, data) of flac.go; yields [rw, err].
\* The switch is on the header byte with its flag bit still set.
RECURSIVE findAndWriteFlacCommentBlock(_, _)
findAndWriteFlacCommentBlock(rw, preparedVorbisComment) ==
    With(readBytes(rw, 1), LAMBDA h :
        IF h.err # "nil" THEN [rw |-> h.rw, err |-> h.err]
        ELSE
        With(readBytes(h.rw, 3), LAMBDA l :
            IF l.err # "nil" THEN [rw |-> l.rw, err |-> l.err]
            ELSE
            With(IF h.data[1] = vorbisCommentBlock
                 THEN CommentCase(l.rw, getInt(l.data), preparedVorbisComment)
                 ELSE [rw  |-> Seek(l.rw, l.rw.pos + getInt(l.data)),
                       ret |-> "continue"], LAMBDA c :
                IF c.ret # "continue" THEN [rw |-> c.rw, err |-> c.ret]
                ELSE IF getBit7(h.data[1]) THEN [rw |-> c.rw, err |-> "nil"]
                ELSE findAndWriteFlacCommentBlock(c.rw, preparedVorbisComment))))

----------------------------------------------------------------------------
(* WriteFLACTags (flac.go) *)

\* WriteFLACTags without the comparison of the signature
WriteFLACTags_NoSignatureTest(rw, preparedVorbisComment) ==
    LET flac == readBytes(rw, 4)
    IN  IF flac.err # "nil"
        THEN [rw |-> flac.rw, m |-> ZeroLayout, err |-> flac.err]
        ELSE
        LET fb == findBlocks(flac.rw, ZeroLayout)
            m  == fb.m
            newCommentBlockLen == Len(preparedVorbisComment)
        IN  IF /\ newCommentBlockLen
                    < m.commentBlockLen + (m.paddingBlockLen - 4)
               /\ m.paddingBlockLen > 0
            THEN LET r1 == shiftPadding(fb.rw, m, newCommentBlockLen)
                     r2 == Write(Seek(r1, m.commentBlockPos + 1),
                                 formatUintBigEndian3(newCommentBlockLen))
                 IN  [rw  |-> Write(r2, preparedVorbisComment), m |-> m,
                      err |-> "nil"]
            ELSE [rw |-> fb.rw, m |-> m,
                  err |-> "cannot write tags without padding"]

\* WriteFLACTags(rw, data), preparedVorbisComment being
\* PrepareVorbisComment(data); yields [rw, m, err]
WriteFLACTags(rw, preparedVorbisComment) ==
    LET flac == readBytes(rw, 4)
    IN  IF flac.err # "nil"
        THEN [rw |-> flac.rw, m |-> ZeroLayout, err |-> flac.err]
        ELSE IF flac.data # Signature
        THEN [rw |-> flac.rw, m |-> ZeroLayout, err |-> "expected 'fLaC'"]
        ELSE
        LET fb == findBlocks(flac.rw, ZeroLayout)
            m  == fb.m
            newCommentBlockLen == Len(preparedVorbisComment)
        IN  IF /\ newCommentBlockLen
                    < m.commentBlockLen + (m.paddingBlockLen - 4)
               /\ m.paddingBlockLen > 0
            THEN LET r1 == shiftPadding(fb.rw, m, newCommentBlockLen)
                     r2 == Write(Seek(r1, m.commentBlockPos + 1),
                                 formatUintBigEndian3(newCommentBlockLen))
                 IN  [rw  |-> Write(r2, preparedVorbisComment), m |-> m,
                      err |-> "nil"]
            ELSE \* the call of findAndWriteFlacCommentBlock that follows
                 \* this return is unreachable
                 [rw |-> fb.rw, m |-> m,
                  err |-> "cannot write tags without padding"]

----------------------------------------------------------------------------
(* The earlier copy of the file (src/unnamed/part_000): WriteFLACTags goes  *)
(* straight to its own findAndWriteFlacCommentBlock, which tests the       *)
(* last-block flag before it looks at the block.                           *)

RECURSIVE findAndWriteFlacCommentBlock_part000(_, _)
findAndWriteFlacCommentBlock_part000(rw, preparedVorbisComment) ==
    With(readBytes(rw, 1), LAMBDA h :
        IF h.err # "nil" THEN [rw |-> h.rw, err |-> h.err]
        ELSE IF getBit7(h.data[1]) THEN [rw |-> h.rw, err |-> "nil"]
        ELSE
        With(readBytes(h.rw, 3), LAMBDA l :
            IF l.err # "nil" THEN [rw |-> l.rw, err |-> l.err]
            ELSE
            With(IF h.data[1] = vorbisCommentBlock
                 THEN CommentCase(l.rw, getInt(l.data), preparedVorbisComment)
                 ELSE [rw  |-> Seek(l.rw, l.rw.pos + getInt(l.data)),
                       ret |-> "continue"], LAMBDA c :
                IF c.ret # "continue" THEN [rw |-> c.rw, err |-> c.ret]
                ELSE findAndWriteFlacCommentBlock_part000(
                         c.rw, preparedVorbisComment))))

WriteFLACTags_part000(rw, preparedVorbisComment) ==
    LET flac == readBytes(rw, 4)
    IN  IF flac.err # "nil" THEN [rw |-> flac.rw, err |-> flac.err]
        ELSE IF flac.data # Signature
        THEN [rw |-> flac.rw, err |-> "expected 'fLaC'"]
        ELSE findAndWriteFlacCommentBlock_part000(flac.rw,
                                                  preparedVorbisComment)

----------------------------------------------------------------------------
(* The files the operations are run on *)

\* block kinds of the generated chains: an opaque block, a padding block
\* and two comment blocks of different length
BlockKinds ==
    {[type |-> 0, len |-> 2], [type |-> paddingBlock, len |-> 6],
     [type |-> vorbisCommentBlock, len |-> 2],
     [type |-> vorbisCommentBlock, len |-> 3]}

Chains == UNION {[1..n -> BlockKinds] : n \in 1..MaxBlocks}

\* the i-th block of a chain: header byte, 24-bit length, payload bytes that
\* differ from block to block
BlockBytes(i, k, last) ==
    <<k.type + (IF last THEN 128 ELSE 0)>>
        \o formatUintBigEndian3(k.len)
        \o [j \in 1..k.len |-> 10 * i + j]

RECURSIVE ChainBytes(_, _)
ChainBytes(chain, i) ==
    IF i > Len(chain) THEN <<>>
    ELSE BlockBytes(i, chain[i], i = Len(chain)) \o ChainBytes(chain, i + 1)

Audio == <<250, 251, 252>>

Container(chain) == Signature \o ChainBytes(chain, 1) \o Audio

\* a plain file whose bytes differ within any window of 251 bytes
Ramp(size) == [i \in 1..size |-> i % 251]

Tails ==
    (0..SmallTail) \cup
    {bufSize - 1, bufSize, bufSize + 1, 2 * bufSize - 1, 2 * bufSize,
     2 * bufSize + 1, 2 * bufSize + 50}

RawCursors == {0, 3}

Offsets == {1, 2, 3, 5, bufSize - 1, bufSize, bufSize + 1}

\* PrepareVorbisComment(data): the encoded comment, an opaque byte buffer
Payload(n) == [j \in 1..n |-> 200 + j]

----------------------------------------------------------------------------
(* State machine: a caller holding the open file makes one call; after a   *)
(* ShiftFileLeft that returned nil it may call ShiftFileRight at the same  *)
(* cursor.  calls records each call with the file and cursor it started    *)
(* from; fault is the failure of the stream that each call meets.          *)

\* no call is in progress
Idle == [op |-> "none"]

\* no call on the stream fails
NoFault == [at |-> 0, short |-> FALSE]

\* the call that fails, and whether a failing write is a short write
Faults == [at : 1..MaxFaultAt, short : BOOLEAN]

\* the chains of the damaged containers and of the runs with a fault
FaultChains == {c \in Chains : Len(c) <= MaxFaultBlocks}

\* f with a wrong first byte ("X"), f cut short at the end, and the files
\* shorter than a signature
Damaged(f) ==
    {[f EXCEPT ![1] = 88]}
        \cup {SubSeq(f, 1, Len(f) - n) : n \in 1..MaxCut}
        \cup {SubSeq(Signature, 1, n) : n \in 0..3}

Init ==
    /\ \/ /\ scenario = "container"
          /\ \/ /\ \E chain \in Chains : file = Container(chain)
                /\ fault = NoFault
             \/ /\ \E chain \in FaultChains : file \in Damaged(Container(chain))
                /\ fault = NoFault
             \/ /\ \E chain \in FaultChains : file = Container(chain)
                /\ fault \in Faults
          \* at the start of the file, or past the signature
          /\ pos \in {0, 4}
       \/ /\ scenario = "raw"
          /\ \E p \in RawCursors, t \in Tails :
                /\ file = Ramp(p + t)
                /\ pos = p
                /\ fault \in {NoFault} \cup (IF t <= SmallTail THEN Faults ELSE {})
    /\ written = {}
    /\ techMeta = ZeroLayout
    /\ calls = <<>>
    /\ run = Idle

\* the stream a call is handed: the open file with the fault armed for it
Stream ==
    [file |-> file, pos |-> pos, written |-> {}, k |-> 0,
     fault |-> fault.at, short |-> fault.short, err |-> "nil",
     failed |-> "none", late |-> FALSE]

\* the record of a call: its arguments and result, the file and cursor it
\* started from and, filled in at its return, what failed on the stream
Call(op, offset, payload, ret) ==
    [op |-> op, offset |-> offset, payload |-> payload, ret |-> ret,
     file |-> file, pos |-> pos, failed |-> "none", late |-> FALSE]

Return(rw, c) ==
    /\ file' = rw.file
    /\ pos' = rw.pos
    /\ written' = rw.written
    /\ calls' = Append(calls, [c EXCEPT !.failed = rw.failed,
                                        !.late = rw.late])

CallWriteFLACTags ==
    /\ calls = <<>>
    /\ \E n \in 0..MaxPayload :
          LET r == WriteFLACTags(Stream, Payload(n))
          IN  /\ Return(r.rw, Call("WriteFLACTags", 0, Payload(n), r.err))
              /\ techMeta' = r.m
    /\ UNCHANGED <<scenario, fault, run>>

CallWriteFLACTags_part000 ==
    /\ calls = <<>>
    /\ \E n \in 0..MaxPayload :
          LET r == WriteFLACTags_part000(Stream, Payload(n))
          IN  Return(r.rw, Call("WriteFLACTags_part000", 0, Payload(n), r.err))
    /\ UNCHANGED <<techMeta, scenario, fault, run>>

CallFindBlocks ==
    /\ calls = <<>>
    /\ LET r == findBlocks(Stream, ZeroLayout)
       IN  /\ Return(r.rw, Call("findBlocks", 0, <<>>, r.err))
           /\ techMeta' = r.m
    /\ UNCHANGED <<scenario, fault, run>>

CallFindAndWriteFlacCommentBlock ==
    /\ calls = <<>>
    /\ \E n \in 0..MaxPayload :
          LET r == findAndWriteFlacCommentBlock(Stream, Payload(n))
          IN  Return(r.rw, Call("findAndWriteFlacCommentBlock", 0, Payload(n),
                                r.err))
    /\ UNCHANGED <<techMeta, scenario, fault, run>>

CallShiftFileLeft ==
    /\ scenario = "raw"
    /\ calls = <<>>
    /\ \E offset \in Offsets :
          LET r == ShiftFileLeft(Stream, offset)
          IN  Return(r.rw, Call("ShiftFileLeft", offset, <<>>, r.err))
    /\ UNCHANGED <<techMeta, scenario, fault, run>>

CallShiftFileRight ==
    /\ scenario = "raw"
    /\ \/ calls = <<>>
       \/ /\ Len(calls) = 1
          /\ calls[1].op = "ShiftFileLeft"
          /\ calls[1].ret = "nil"
    /\ \E offset \in Offsets :
          LET r == ShiftFileRight(Stream, offset)
          IN  Return(r.rw, Call("ShiftFileRight", offset, <<>>, r.err))
    /\ UNCHANGED <<techMeta, scenario, fault, run>>

Next ==
    \/ CallWriteFLACTags
    \/ CallWriteFLACTags_part000
    \/ CallFindBlocks
    \/ CallFindAndWriteFlacCommentBlock
    \/ CallShiftFileLeft
    \/ CallShiftFileRight

Spec == Init /\ [][Next]_vars

----------------------------------------------------------------------------
(* The loops, one iteration at a time.  A call in progress is run = [op,    *)
(* offset, file, pos, loop, iter, read]: its arguments, the file and cursor *)
(* it started from, the state of its loop, the iterations made and, for    *)
(* ShiftFileRight, what the latest iteration read: from which offset,      *)
(* which bytes, and the offsets written before it.                         *)

StepInit ==
    /\ \/ /\ scenario = "container"
          /\ \E chain \in Chains :
                file \in {Container(chain)} \cup Damaged(Container(chain))
          /\ pos = 4
       \/ /\ scenario = "raw"
          /\ \E p \in RawCursors, t \in Tails :
                /\ file = Ramp(p + t)
                /\ pos = p
    /\ fault = NoFault
    /\ written = {}
    /\ techMeta = ZeroLayout
    /\ calls = <<>>
    /\ run = Idle

Running(op, offset, loop) ==
    [op |-> op, offset |-> offset, file |-> file, pos |-> pos, loop |-> loop,
     iter |-> 0, read |-> [from |-> 0, data |-> <<>>, before |-> {}]]

\* the stream of the call in progress shows in file, pos and written
Progress(rw) ==
    /\ file' = rw.file
    /\ pos' = rw.pos
    /\ written' = rw.written

\* the call in progress returns ret, leaving the stream rw
Finish(rw, ret) ==
    /\ Progress(rw)
    /\ calls' = Append(calls, [op |-> run.op, offset |-> run.offset,
                               payload |-> <<>>, ret |-> ret,
                               file |-> run.file, pos |-> run.pos,
                               failed |-> rw.failed, late |-> rw.late])
    /\ run' = Idle

BeginShiftFileRight ==
    /\ run.op = "none" /\ calls = <<>> /\ scenario = "raw"
    /\ \E offset \in Offsets :
          \E st \in {ShiftFileRightStart(Stream)} :
              /\ run' = Running("ShiftFileRight", offset, st)
              /\ Progress(st.rw)
    /\ UNCHANGED <<techMeta, calls, scenario, fault>>

StepShiftFileRight ==
    /\ run.op = "ShiftFileRight" /\ run.loop.state = "loop"
    /\ \E st \in {ShiftFileRightIter(run.loop, run.offset, run.pos)} :
           /\ run' = [run EXCEPT
                        !.loop = st,
                        !.iter = @ + 1,
                        !.read = [from   |-> run.loop.rw.pos,
                                  data   |-> Read(run.loop.rw,
                                                  run.loop.len).data,
                                  before |-> run.loop.rw.written]]
           /\ Progress(st.rw)
    /\ UNCHANGED <<techMeta, calls, scenario, fault>>

\* after the loop: the cursor goes back and the call returns; a call that
\* panicked never gets here
EndShiftFileRight ==
    /\ run.op = "ShiftFileRight" /\ run.loop.state = "done"
    /\ \E rw \in {Seek(run.loop.rw, run.pos)} : Finish(rw, "nil")
    /\ UNCHANGED <<techMeta, scenario, fault>>

BeginShiftFileLeft ==
    /\ run.op = "none" /\ calls = <<>> /\ scenario = "raw"
    /\ \E offset \in Offsets :
          run' = Running("ShiftFileLeft", offset,
                         [rw |-> Stream, state |-> "loop", err |-> "nil"])
    /\ UNCHANGED <<file, pos, written, techMeta, calls, scenario, fault>>

StepShiftFileLeft ==
    /\ run.op = "ShiftFileLeft" /\ run.loop.state = "loop"
    /\ \E it \in {ShiftFileLeftIter(run.loop.rw, run.offset)} :
           /\ run' = [run EXCEPT !.loop = it, !.iter = @ + 1]
           /\ Progress(it.rw)
    /\ UNCHANGED <<techMeta, calls, scenario, fault>>

EndShiftFileLeft ==
    /\ run.op = "ShiftFileLeft" /\ run.loop.state # "loop"
    /\ \E r \in {ShiftFileLeftEnd(run.loop, run.pos)} : Finish(r.rw, r.err)
    /\ UNCHANGED <<techMeta, scenario, fault>>

BeginFindBlocks ==
    /\ run.op = "none" /\ calls = <<>>
    /\ run' = Running("findBlocks", 0, findBlocksStart(Stream, ZeroLayout))
    /\ UNCHANGED <<file, pos, written, techMeta, calls, scenario, fault>>

StepFindBlocks ==
    /\ run.op = "findBlocks" /\ run.loop.state = "loop"
    /\ \E w \in {findBlocksIter(run.loop)} :
           /\ run' = [run EXCEPT !.loop = w, !.iter = @ + 1]
           /\ Progress(w.rw)
           /\ techMeta' = w.m
    /\ UNCHANGED <<calls, scenario, fault>>

EndFindBlocks ==
    /\ run.op = "findBlocks" /\ run.loop.state # "loop"
    /\ \E r \in {findBlocksEnd(run.loop, run.pos)} : Finish(r.rw, r.err)
    /\ UNCHANGED <<techMeta, scenario, fault>>

StepNext ==
    \/ BeginShiftFileRight
    \/ StepShiftFileRight
    \/ EndShiftFileRight
    \/ BeginShiftFileLeft
    \/ StepShiftFileLeft
    \/ EndShiftFileLeft
    \/ BeginFindBlocks
    \/ StepFindBlocks
    \/ EndFindBlocks

\* a call in progress is not suspended for ever: the calls are sequential
\* code of the one goroutine of main
StepSpec == StepInit /\ [][StepNext]_vars /\ WF_vars(StepNext)

----------------------------------------------------------------------------
(* Vocabulary of the properties *)

\* the call that returned last, and the file and cursor it started from
Last == calls[Len(calls)]
\* op was called last
Ended(op) == calls # <<>> /\ Last.op = op
\* op was called last, and no call it made on the stream failed
Returned(op) == Ended(op) /\ Last.failed = "none"

\* Walking a block chain from header offset p by the declared lengths:
\* the blocks met, whether the walk ended at a last-flagged block inside
\* the file, and the offset after that block.
RECURSIVE Walk(_, _)
Walk(f, p) ==
    IF p + 4 > Len(f) THEN [blocks |-> <<>>, ok |-> FALSE, end |-> p]
    ELSE LET b == [type |-> f[p + 1] % 128,
                   last |-> f[p + 1] >= 128,
                   len  |-> getInt(SubSeq(f, p + 2, p + 4)),
                   off  |-> p]
         IN  IF p + 4 + b.len > Len(f)
             THEN [blocks |-> <<b>>, ok |-> FALSE, end |-> p]
             ELSE IF b.last
             THEN [blocks |-> <<b>>, ok |-> TRUE, end |-> p + 4 + b.len]
             ELSE LET r == Walk(f, p + 4 + b.len)
                  IN  [blocks |-> <<b>> \o r.blocks, ok |-> r.ok,
                       end |-> r.end]

WellFormed(f) ==
    /\ Len(f) >= 4
    /\ SubSeq(f, 1, 4) = Signature
    /\ Walk(f, 4).ok

BlocksOf(f) == Walk(f, 4).blocks
PayloadOf(f, b) == SubSeq(f, b.off + 5, b.off + 4 + b.len)

\* i is a comment block that block i + 1, a padding block, follows
AdjacentPair(bs, i) ==
    /\ i \in 1..(Len(bs) - 1)
    /\ bs[i].type = vorbisCommentBlock
    /\ bs[i + 1].type = paddingBlock

CommentIndexes(bs) == {i \in 1..Len(bs) : bs[i].type = vorbisCommentBlock}

----------------------------------------------------------------------------
(* WriteFLACTags and the layout scan *)

\* WriteFLACTags was called at the start of a well-formed container
WroteContainer ==
    /\ Returned("WriteFLACTags")
    /\ Last.pos = 0
    /\ WellFormed(Last.file)

\* block i of bs is neither a comment block nor the padding block that
\* follows a comment block
Untouchable(bs, i) ==
    /\ bs[i].type # vorbisCommentBlock
    /\ ~(i > 1 /\ AdjacentPair(bs, i - 1))

\* C1: after a call of WriteFLACTags that returns nil on a well-formed
\* container the file is again well-formed, with the same sequence of block
\* types and the last-block flag on the same block, an unchanged payload in
\* every block other than the comment block and its adjacent padding block,
\* and the original audio bytes after the last metadata block.
C1_WriteKeepsContainerWellFormed ==
    (WroteContainer /\ Last.ret = "nil")
    => LET old == Walk(Last.file, 4)
           new == Walk(file, 4)
       IN  /\ WellFormed(file)
           /\ Len(new.blocks) = Len(old.blocks)
           /\ \A i \in 1..Len(old.blocks) :
                 /\ new.blocks[i].type = old.blocks[i].type
                 /\ new.blocks[i].last = old.blocks[i].last
                 /\ Untouchable(old.blocks, i)
                    => PayloadOf(file, new.blocks[i])
                         = PayloadOf(Last.file, old.blocks[i])
           /\ SubSeq(file, new.end + 1, Len(file))
                = SubSeq(Last.file, old.end + 1, Len(Last.file))

\* C2: for every container whose comment block (length c, header at cp) is
\* immediately followed by a padding block (length L, header at pp) and
\* every new payload P with L >= len(P) - c + 4, WriteFLACTags returns nil
\* with the file length unchanged, len(P) encoded at cp + 1, P at cp + 4,
\* and the padding header relocated to pp + (len(P) - c) with declared
\* length L - (len(P) - c).
C2_PaddingAbsorbsPayload ==
    WroteContainer
    => LET bs == BlocksOf(Last.file)
           n  == Len(Last.payload)
       IN  \A i \in CommentIndexes(bs) :
              (/\ CommentIndexes(bs) = {i}
               /\ AdjacentPair(bs, i)
               /\ bs[i + 1].len >= n - bs[i].len + 4)
              => LET cp == bs[i].off
                     d  == n - bs[i].len
                     np == bs[i + 1].off + d
                 IN  /\ Last.ret = "nil"
                     /\ Len(file) = Len(Last.file)
                     /\ SubSeq(file, cp + 2, cp + 4) = formatUintBigEndian3(n)
                     /\ SubSeq(file, cp + 5, cp + 4 + n) = Last.payload
                     /\ file[np + 1] = Last.file[bs[i + 1].off + 1]
                     /\ getInt(SubSeq(file, np + 2, np + 4))
                          = bs[i + 1].len - d

\* C3: when the new payload is larger than the slack available (no adjacent
\* padding block, or len(P) >= c + L - 4), WriteFLACTags falls back to the
\* shift rewrite and succeeds: the file length becomes the original length
\* + (len(P) - c), P sits at the comment block's payload offset, and the
\* byte after the new payload is the byte that followed the old payload.
C3_FallbackShiftRewrite ==
    WroteContainer
    => LET bs == BlocksOf(Last.file)
           n  == Len(Last.payload)
       IN  \A i \in CommentIndexes(bs) :
              (/\ CommentIndexes(bs) = {i}
               /\ \/ ~AdjacentPair(bs, i)
                  \/ n >= bs[i].len + bs[i + 1].len - 4)
              => LET cp == bs[i].off
                     c  == bs[i].len
                 IN  /\ Last.ret = "nil"
                     /\ Len(file) = Len(Last.file) + (n - c)
                     /\ SubSeq(file, cp + 5, cp + 4 + n) = Last.payload
                     /\ cp + 4 + n < Len(file)
                     /\ file[cp + 4 + n + 1] = Last.file[cp + 4 + c + 1]

\* C4: for every container whose chain contains no comment block,
\* WriteFLACTags returns an error and writes no byte to the file.
C4_NoCommentBlockNoWrite ==
    (WroteContainer /\ CommentIndexes(BlocksOf(Last.file)) = {})
    => /\ Last.ret # "nil"
       /\ written = {}
       /\ file = Last.file

\* the layout scan ran over the chain of a well-formed container
ScannedContainer ==
    /\ WellFormed(Last.file)
    /\ \/ Returned("findBlocks") /\ Last.pos = 4
       \/ Returned("WriteFLACTags") /\ Last.pos = 0

\* C5: findBlocks records a padding block only when it is the block
\* immediately following a comment block; for every chain in which no
\* padding block directly follows a comment block, paddingBlockLen stays
\* unset (0) after the scan.
C5_PaddingRecordedOnlyIfAdjacent ==
    (calls # <<>> /\ ScannedContainer)
    => LET bs == BlocksOf(Last.file)
       IN  /\ (\A i \in 1..Len(bs) : ~AdjacentPair(bs, i))
              => techMeta.paddingBlockLen = 0
           /\ techMeta.paddingBlockLen # 0
              => \E i \in 1..Len(bs) :
                    /\ AdjacentPair(bs, i)
                    /\ techMeta.paddingBlockPos = bs[i + 1].off
                    /\ techMeta.paddingBlockLen = bs[i + 1].len

\* offset p lies in a comment block or in the padding block that follows it
InCommentPaddingRegion(bs, p) ==
    \E i \in 1..Len(bs) :
        /\ AdjacentPair(bs, i)
        /\ bs[i].off <= p
        /\ p < bs[i + 1].off + 4 + bs[i + 1].len

\* C6: in the padding-absorbing path of WriteFLACTags (its only path that
\* returns nil) every file byte outside the region [comment header offset,
\* old padding payload end) is the same before and after the call.
C6_PaddingPathFrame ==
    (WroteContainer /\ Last.ret = "nil")
    => /\ Len(file) = Len(Last.file)
       /\ \A p \in 0..(Len(Last.file) - 1) :
             ~InCommentPaddingRegion(BlocksOf(Last.file), p)
             => file[p + 1] = Last.file[p + 1]

----------------------------------------------------------------------------
(* ShiftFileRight, ShiftFileLeft *)

\* C7: for every file of length S, cursor P <= S and offset > 0,
\* ShiftFileRight completes and leaves a file of length S + offset whose
\* bytes [P + offset, S + offset) are the original bytes [P, S) and whose
\* bytes [0, P) are unchanged.
C7_ShiftRightOpensGap ==
    (Returned("ShiftFileRight") /\ Last.pos <= Len(Last.file)
        /\ Last.offset > 0)
    => /\ Last.ret = "nil"
       /\ Len(file) = Len(Last.file) + Last.offset
       /\ \A i \in (Last.pos + 1)..Len(Last.file) :
             file[i + Last.offset] = Last.file[i]
       /\ \A i \in 1..Last.pos : file[i] = Last.file[i]

\* C8: for every file of length S, cursor P and offset > 0 with
\* P + offset <= S, after ShiftFileLeft returns nil the bytes
\* [P, S - offset) are the original bytes [P + offset, S) and the bytes
\* [0, P) are unchanged.
C8_ShiftLeftClosesGap ==
    (Returned("ShiftFileLeft") /\ Last.ret = "nil" /\ Last.offset > 0
        /\ Last.pos + Last.offset <= Len(Last.file))
    => /\ \A i \in (Last.pos + 1)..(Len(Last.file) - Last.offset) :
             file[i] = Last.file[i + Last.offset]
       /\ \A i \in 1..Last.pos : file[i] = Last.file[i]

\* a ShiftFileLeft that moved a tail of several buffers and a partial one
C8_Witness ==
    /\ Returned("ShiftFileLeft") /\ Last.ret = "nil"
    /\ Last.pos > 0
    /\ Len(Last.file) - Last.pos - Last.offset > 2 * ShiftLeftBufLen
    /\ (Len(Last.file) - Last.pos - Last.offset) % ShiftLeftBufLen # 0
    /\ file # Last.file

\* C9: after ShiftFileLeft returns nil on a file of length S the file
\* length is S - offset.
C9_ShiftLeftTruncates ==
    (Returned("ShiftFileLeft") /\ Last.ret = "nil" /\ Last.offset > 0
        /\ Last.pos + Last.offset <= Len(Last.file))
    => Len(file) = Len(Last.file) - Last.offset

\* C10: ShiftFileLeft followed by ShiftFileRight with the same offset at
\* the same cursor P yields a file of the original length whose bytes are
\* the original bytes everywhere except the gap [P, P + offset).
C10_LeftThenRightRestores ==
    (/\ Len(calls) = 2
     /\ calls[1].op = "ShiftFileLeft" /\ calls[1].ret = "nil"
     /\ calls[2].op = "ShiftFileRight"
     /\ calls[1].failed = "none" /\ calls[2].failed = "none"
     /\ calls[2].offset = calls[1].offset
     /\ calls[2].pos = calls[1].pos
     /\ calls[1].pos + calls[1].offset <= Len(calls[1].file))
    => /\ calls[2].ret = "nil"
       /\ Len(file) = Len(calls[1].file)
       /\ \A i \in 1..Len(calls[1].file) :
             (i <= calls[1].pos \/ i > calls[1].pos + calls[1].offset)
             => file[i] = calls[1].file[i]

----------------------------------------------------------------------------
(* Errors and the cursor *)

\* the file a call started from does not begin with the signature
BadSignature(f) == Len(f) < 4 \/ SubSeq(f, 1, 4) # Signature

C12_ShiftRestoresCursor ==
    (/\ \/ Ended("ShiftFileLeft")
        \/ Ended("ShiftFileRight")
     /\ \/ Last.ret = "nil" /\ Last.failed = "none"
        \/ Last.ret \notin {"nil", "panic"})
    => pos = Last.pos

\* C13: findBlocks leaves the cursor at the position it had before the
\* call on every return path: at a last-flagged block, at the early stop at
\* the adjacent padding block, and at the error of a truncated stream.
C13_FindBlocksRestoresCursor ==
    Returned("findBlocks") => pos = Last.pos

----------------------------------------------------------------------------
(* The block walkers *)

\* a call that started past the signature of a well-formed container, no
\* call on the stream failing
WalkedContainer(op) ==
    /\ Returned(op)
    /\ Last.pos = 4
    /\ fault = NoFault
    /\ WellFormed(Last.file)

\* the comment block of bs is its last block, and its only comment block
CommentBlockIsLast(bs) == CommentIndexes(bs) = {Len(bs)}

\* C16: every block walker processes the last-flagged block before it
\* stops: when the comment block is the last metadata block, findBlocks
\* records it, and findAndWriteFlacCommentBlock rewrites its length and
\* payload instead of returning nil without writing.
C16_LastFlaggedBlockProcessed ==
    LET bs == BlocksOf(Last.file)
        c  == bs[Len(bs)]
    IN  /\ (WalkedContainer("findBlocks") /\ CommentBlockIsLast(bs))
           => /\ techMeta.commentBlockPos = c.off
              /\ techMeta.commentBlockLen = c.len
        /\ (WalkedContainer("findAndWriteFlacCommentBlock")
               /\ CommentBlockIsLast(bs))
           => /\ written # {}
              /\ SubSeq(file, c.off + 2, c.off + 4)
                   = formatUintBigEndian3(Len(Last.payload))
              /\ SubSeq(file, c.off + 5, c.off + 4 + Len(Last.payload))
                   = Last.payload

\* C17: when the chain has more than one comment block, findBlocks reports
\* the offset and length of the first one in chain order; a later comment
\* block never replaces what was recorded.
C17_FirstCommentBlockReported ==
    LET bs == BlocksOf(Last.file)
    IN  (WalkedContainer("findBlocks") /\ CommentIndexes(bs) # {})
        => LET first == bs[CHOOSE i \in CommentIndexes(bs) :
                              \A j \in CommentIndexes(bs) : i <= j]
           IN  /\ techMeta.commentBlockPos = first.off
               /\ techMeta.commentBlockLen = first.len

----------------------------------------------------------------------------
(* Failing calls on the stream *)

\* the error of the call on the stream that failed
StreamError == IF Last.failed = "write" /\ fault.short THEN "ErrShortWrite"
               ELSE "EIO"

\* C14: whenever a write issued during WriteFLACTags accepts fewer bytes
\* than requested, WriteFLACTags returns a non-nil error; it never returns
\* nil after a short write.
C14_ShortWriteIsReported ==
    (Ended("WriteFLACTags") /\ Last.failed = "write")
    => Last.ret # "nil"

\* C18: whenever a seek, read or write on the stream fails at any step of
\* WriteFLACTags, the operation stops at that step, performs no further
\* write, and WriteFLACTags returns that error.
C18_StreamErrorStopsAndIsReturned ==
    (Ended("WriteFLACTags") /\ Last.failed # "none")
    => /\ Last.ret = StreamError
       /\ ~Last.late

----------------------------------------------------------------------------
(* The loops *)

\* C15: in every iteration of the loop of ShiftFileRight every byte read
\* into the buffer still holds its original value: no chunk is read from a
\* range that an earlier iteration of the call has written.
C15_ShiftRightReadsUnwritten ==
    (run.op = "ShiftFileRight" /\ run.iter > 0 /\ run.offset > 0)
    => \A i \in 1..Len(run.read.data) :
          /\ run.read.data[i] = run.file[run.read.from + i]
          /\ (run.read.from + i - 1) \notin run.read.before

\* the third iteration or a later one read a chunk after earlier ones had
\* written, the offset being shorter than a chunk
C15_Witness ==
    /\ run.op = "ShiftFileRight"
    /\ run.iter >= 3
    /\ run.offset < bufSize
    /\ run.pos > 0
    /\ Len(run.read.data) > 0
    /\ run.read.before # {}

\* C19: on every finite file every call eventually returns, with a result
\* or an error: the block walk stops at a last-flagged block or at the end
\* of the stream, and each shift loop stops after finitely many chunks.
C19_EveryCallReturns == (run.op # "none") ~> (run.op = "none")

====
